---------------------------- MODULE Spec2Model ----------------------------
(***************************************************************************)
(* Model of the ReduxWebSocket connection manager (src/src/ReduxWebSocket  *)
(* .ts) together with the action creators it dispatches (actions module,   *)
(* src/unnamed/part_000) and the RetryOperation object it drives (created  *)
(* by retry.operation in the constructor).                                 *)
(*                                                                         *)
(* One step of the model is one turn of the JavaScript event loop: a       *)
(* command (connect, disconnect, send), a native event of one of the       *)
(* sockets the manager created (open, close, error, message), or a timer   *)
(* callback (the backoff timer of retry(), the attempt timeout).  Each     *)
(* handler runs to completion inside its step.                             *)
(*                                                                         *)
(* The retrier is the RetryOperation of the `retry` package, which the     *)
(* repository imports and does not pin: its operations are modelled by     *)
(* what they do to the fields the manager depends on (_attempts,           *)
(* _timeouts, _cachedTimeouts, the timer handles _timer and _timeout).     *)
(* Releases differ on whether stop() cancels the pending backoff timer;    *)
(* `build` fixes one of the two for a run.  Timers are untimed: a pending  *)
(* callback may run at any later turn, callbacks of one kind in the order  *)
(* they were scheduled.                                                    *)
(***************************************************************************)
EXTENDS Integers, Sequences, FiniteSets

\* Number of sockets a run of Spec may create.
MaxSockets == 3

\* Number of sockets a run of SpecDeep may create.
DeepSockets == MaxSockets + 1

\* retry.operation is called without `retries`: the package default, 10.
Retries == 10

\* Number of sockets a run of SpecCycle may create: enough to use up the
\* Retries timeouts of the list and go on.
CycleSockets == Retries + 2

VARIABLES
    options,      \* this.options: prefix, serializer, reconnectOnClose, onOpen
    build,        \* which semantics of RetryOperation.stop() the build links
    websocket,    \* this.websocket: 0 is null, else a socket id
    hasOpened,    \* this.hasOpened
    retrier,      \* this.retrier: the RetryOperation's fields and its timers
    sock,         \* the WebSocket objects created so far, by id
    created,      \* how many sockets have been created
    out,          \* the actions dispatched by the last step, in order
    last,         \* what the last step was, with the facts its handler read
    hist          \* history of the run: facts the claims speak about

vars == <<options, build, websocket, hasOpened, retrier, sock, created, out,
          last, hist>>

SockIds == 1..CycleSockets

----------------------------------------------------------------------------
(* Inputs *)

Prefixes == {"REDUX_WEBSOCKET"}

Payloads ==
    { [url |-> "wss://a", protocols |-> <<>>],
      [url |-> "wss://b", protocols |-> <<"p">>] }

\* The option sets a manager is constructed with.
Configurations ==
    { [prefix |-> px, serializer |-> TRUE, reconnectOnClose |-> TRUE,
       onOpen |-> TRUE] : px \in Prefixes }
    \cup
    { [prefix |-> px, serializer |-> FALSE, reconnectOnClose |-> FALSE,
       onOpen |-> FALSE] : px \in Prefixes }

SendPayloads == {"x", "y"}

Messages == {"m"}

\* options.serializer, when configured: a JSON.stringify-like encoder.
serializer(p) == <<"json", p>>

----------------------------------------------------------------------------
(* Action creators (actions module) *)

\* const [stringTimestamp, prefix] = args: a missing prefix is undefined.
ArgStringTimestamp(args) == IF Len(args) >= 1 THEN args[1] ELSE "undefined"

ArgPrefix(args) == IF Len(args) >= 2 THEN args[2] ELSE "undefined"

\* Truthiness of the value bound to stringTimestamp.
Truthy(v) == v # "undefined" /\ v # ""

\* buildAction: type is the pair <<prefix, NAME>> standing for
\* prefix::NAME; the payload key is present only when truthy.
buildAction(actionType, stringTimestamp, payload) ==
    [ type      |-> actionType,
      timestamp |-> IF Truthy(stringTimestamp) THEN "string" ELSE "date",
      payload   |-> payload ]

NoPayload == [none |-> TRUE]

beginReconnect(args) ==
    buildAction(<<ArgPrefix(args), "BEGIN_RECONNECT">>,
                ArgStringTimestamp(args), NoPayload)

reconnectAttempt(count, args) ==
    buildAction(<<ArgPrefix(args), "RECONNECT_ATTEMPT">>,
                ArgStringTimestamp(args), [count |-> count])

reconnected(args) ==
    buildAction(<<ArgPrefix(args), "RECONNECTED">>,
                ArgStringTimestamp(args), NoPayload)

open(event, args) ==
    buildAction(<<ArgPrefix(args), "OPEN">>, ArgStringTimestamp(args), event)

broken(args) ==
    buildAction(<<ArgPrefix(args), "BROKEN">>,
                ArgStringTimestamp(args), NoPayload)

reconnectAbandoned(args) ==
    buildAction(<<ArgPrefix(args), "RECONNECT_ABANDONED">>,
                ArgStringTimestamp(args), NoPayload)

closed(event, args) ==
    buildAction(<<ArgPrefix(args), "CLOSED">>, ArgStringTimestamp(args), event)

message(event, args) ==
    buildAction(<<ArgPrefix(args), "MESSAGE">>, ArgStringTimestamp(args),
                [event |-> event, message |-> event.data])

error(args) ==
    buildAction(<<ArgPrefix(args), "ERROR">>, ArgStringTimestamp(args),
                [error |-> "redux-websocket error"])

\* The event names of a sequence of dispatched actions.
Names(seq) == [i \in DOMAIN seq |-> seq[i].type[2]]

Has(seq, name) == \E i \in DOMAIN seq : seq[i].type[2] = name

----------------------------------------------------------------------------
(* RetryOperation, as the manager configures and calls it *)

\* Forever as it would be had the constructor left out forever: true.
ForeverOmitted == FALSE

\* constructor: retry.operation({forever: true, maxTimeout, minTimeout}).
Forever == TRUE

\* The RetryOperation the constructor creates.
\* timeouts counts the entries left in _timeouts (every entry is 1000 ms);
\* cachedTimeouts is whether _cachedTimeouts is non-null (the forever flag);
\* timers / timerLive: pending backoff callbacks, and whether the handle
\* _timer still names a pending one; attemptTimers / timeoutLive: the same
\* for the attempt-timeout callbacks and the handle _timeout.
NewRetrier ==
    [ attempts       |-> 1,
      timeouts       |-> Retries,
      cachedTimeouts |-> Forever,
      fn             |-> [none |-> TRUE],
      timers         |-> 0,
      timerLive      |-> FALSE,
      attemptTimers  |-> 0,
      timeoutLive    |-> FALSE ]

\* clearTimeout(this._timeout): a no-op once that callback has run.
ClearTimeout(r) ==
    IF r.timeoutLive
    THEN [r EXCEPT !.attemptTimers = @ - 1, !.timeoutLive = FALSE]
    ELSE r

\* clearTimeout(this._timer).
ClearTimer(r) ==
    IF r.timerLive
    THEN [r EXCEPT !.timers = @ - 1, !.timerLive = FALSE]
    ELSE r

\* setTimeout(..., this._operationTimeout): the handle is overwritten, an
\* earlier pending callback is not cancelled.
SetTimeout(r) == [r EXCEPT !.attemptTimers = @ + 1, !.timeoutLive = TRUE]

\* RetryOperation.stop(): clears _timeout, empties _timeouts, drops
\* _cachedTimeouts; whether it also cancels the pending backoff timer
\* depends on the release of the package the build links.
RetrierStop(r, clearsTimer) ==
    LET a == ClearTimeout(r)
        b == IF clearsTimer THEN ClearTimer(a) ELSE a
    IN  [b EXCEPT !.timeouts = 0, !.cachedTimeouts = FALSE]

\* RetryOperation.reset(): _attempts = 1, _timeouts = the original list.
RetrierReset(r) == [r EXCEPT !.attempts = 1, !.timeouts = Retries]

\* RetryOperation.retry(err) with a non-null err and no maxRetryTime:
\* returns [r, ok]; ok means a backoff timer was scheduled.
RetrierRetry(r) ==
    LET a == ClearTimeout(r)
    IN  IF a.timeouts > 0
        THEN [r  |-> [a EXCEPT !.timeouts = @ - 1, !.timers = @ + 1,
                               !.timerLive = TRUE],
              ok |-> TRUE]
        ELSE IF a.cachedTimeouts
             THEN [r  |-> [a EXCEPT !.timers = @ + 1, !.timerLive = TRUE],
                   ok |-> TRUE]
             ELSE [r |-> a, ok |-> FALSE]

----------------------------------------------------------------------------
(* WebSocket objects *)

NoSocket == [state |-> "NONE", closedBy |-> "none"]

\* new WebSocket(url, protocols): readyState CONNECTING.  The url and the
\* protocols are fixed at creation and read by no handler: the step that
\* creates a socket records them in last.payload.
NewSocket == [state |-> "CONNECTING", closedBy |-> "none"]

\* A socket whose close event has fired: it delivers no further event.
ClosedSocket == [state |-> "CLOSED", closedBy |-> "none"]

Live(s) == sock[s].state \in {"CONNECTING", "OPEN"}

\* WebSocket.close(code, reason): starts the closing handshake of a socket
\* that is connecting or open, and does nothing otherwise.  closedBy records
\* which caller started it.
SocketClose(sk, s, who) ==
    IF sk[s].state \in {"CONNECTING", "OPEN"}
    THEN [sk EXCEPT ![s].state = "CLOSING", ![s].closedBy = who]
    ELSE sk

----------------------------------------------------------------------------
(* ReduxWebSocket *)

\* The manager's fields, as one value the handlers transform.
Manager ==
    [websocket |-> websocket, hasOpened |-> hasOpened, retrier |-> retrier,
     sock |-> sock]

\* close() without its last assignment: hasOpened keeps its value.
closeKeepsHasOpened(m, who) ==
    IF m.websocket # 0
    THEN [m EXCEPT !.retrier = RetrierStop(m.retrier, build.stopClearsTimer),
                   !.sock = SocketClose(m.sock, m.websocket, who),
                   !.websocket = 0]
    ELSE m

\* close(): nothing without a socket; else retrier.stop(), websocket.close(),
\* websocket = null, hasOpened = false.
close(m, who) ==
    IF m.websocket # 0
    THEN [m EXCEPT !.retrier = RetrierStop(m.retrier, build.stopClearsTimer),
                   !.sock = SocketClose(m.sock, m.websocket, who),
                   !.websocket = 0,
                   !.hasOpened = FALSE]
    ELSE m

\* The actions reliablyConnect dispatches before it creates the socket.
Announce(retries) ==
    IF retries # 0
    THEN (IF retries = 1 THEN <<beginReconnect(<<options.prefix>>)>> ELSE <<>>)
         \o <<reconnectAttempt(retries, <<options.prefix>>)>>
    ELSE <<>>

\* reliablyConnect with retries computed as attempts(), without the - 1.
reliablyConnectOffByOne(m, payload, id) ==
    [ m   |-> [m EXCEPT !.websocket = id,
                        !.sock = [m.sock EXCEPT ![id] = NewSocket]],
      out |-> Announce(m.retrier.attempts),
      payload |-> payload ]

\* reliablyConnect: announces the retry, creates the socket `id` for the
\* payload and stores it in this.websocket.
reliablyConnect(m, payload, id) ==
    [ m   |-> [m EXCEPT !.websocket = id,
                        !.sock = [m.sock EXCEPT ![id] = NewSocket]],
      out |-> Announce(m.retrier.attempts - 1),
      payload |-> payload ]

\* attemptReconnection with its two branches exchanged.
attemptReconnectionSwapped(m) ==
    LET t == RetrierRetry(m.retrier)
    IN  [ m   |-> [m EXCEPT !.retrier = t.r],
          ok  |-> t.ok,
          out |-> IF t.ok THEN <<reconnectAbandoned(<<options.prefix>>)>>
                          ELSE <<broken(<<options.prefix>>)>> ]

\* attemptReconnection: retrier.retry(...), then BROKEN or RECONNECT_ABANDONED.
attemptReconnection(m) ==
    LET t == RetrierRetry(m.retrier)
    IN  [ m   |-> [m EXCEPT !.retrier = t.r],
          ok  |-> t.ok,
          out |-> IF t.ok THEN <<broken(<<options.prefix>>)>>
                          ELSE <<reconnectAbandoned(<<options.prefix>>)>> ]

\* handleOpen: retrier.stop(), retrier.reset(), RECONNECTED if hasOpened,
\* the onOpen hook, OPEN, hasOpened = true.
handleOpen(m, event) ==
    [ m   |-> [m EXCEPT !.retrier =
                            RetrierReset(RetrierStop(m.retrier,
                                                     build.stopClearsTimer)),
                        !.hasOpened = TRUE],
      out |-> (IF m.hasOpened THEN <<reconnected(<<options.prefix>>)>>
                              ELSE <<>>)
              \o <<open(event, <<options.prefix>>)>>,
      hook |-> IF options.onOpen /\ m.websocket # 0 THEN m.websocket ELSE 0 ]

\* The step's record when nothing of it applies.
NoLast ==
    [op |-> "init", sock |-> 0, res |-> "none", was |-> "NONE",
     by |-> "none", hadOpened |-> FALSE, newSock |-> 0, payload |-> [none |-> TRUE],
     retry |-> "none", arg |-> "none", sent |-> <<>>, hook |-> 0]

\* disconnected: the latest command was a disconnect that succeeded;
\* cmdSock: the socket the latest connect command created (0 after a
\* disconnect); opensSinceConnect: opens handled since that command (0, 1, 2 for more);
\* cycleRetries: backoff callbacks run since the latest connect command or
\* open; abandoned: RECONNECT_ABANDONED has been dispatched since the latest
\* connect command.
NoHist ==
    [disconnected |-> FALSE, cmdSock |-> 0, opensSinceConnect |-> 0,
     cycleRetries |-> 0, abandoned |-> FALSE]

Commit(m) ==
    /\ websocket' = m.websocket
    /\ hasOpened' = m.hasOpened
    /\ retrier' = m.retrier
    /\ sock' = m.sock

Init ==
    /\ options \in Configurations
    /\ build \in [stopClearsTimer : BOOLEAN]
    /\ websocket = 0
    /\ hasOpened = FALSE
    /\ retrier = NewRetrier
    /\ sock = [s \in SockIds |-> NoSocket]
    /\ created = 0
    /\ out = <<>>
    /\ last = NoLast
    /\ hist = NoHist

\* connect: close(), retrier.reset(), retrier.attempt(fn, {timeout, cb}):
\* attempt stores fn, arms the attempt timeout and calls fn at once.
connect(payload, limit) ==
    /\ created < limit
    /\ LET id == created + 1
           m1 == close(Manager, "connect")
           m2 == [m1 EXCEPT !.retrier =
                      SetTimeout([RetrierReset(m1.retrier)
                                     EXCEPT !.fn = payload])]
           c  == reliablyConnect(m2, payload, id)
       IN  /\ Commit(c.m)
           /\ created' = id
           /\ out' = c.out
           /\ last' = [NoLast EXCEPT !.op = "connect", !.res = "ok",
                                     !.hadOpened = hasOpened,
                                     !.newSock = id,
                                     !.payload = c.payload]
           /\ hist' = [hist EXCEPT !.disconnected = FALSE,
                                   !.cmdSock = id,
                                   !.opensSinceConnect = 0,
                                   !.cycleRetries = 0,
                                   !.abandoned = FALSE]
    /\ UNCHANGED <<options, build>>

\* disconnect without its guard: close() is always called, nothing throws.
disconnectUnguarded ==
    /\ Commit(close(Manager, "disconnect"))
    /\ last' = [NoLast EXCEPT !.op = "disconnect", !.res = "ok",
                              !.hadOpened = hasOpened]
    /\ hist' = [hist EXCEPT !.disconnected = TRUE, !.cmdSock = 0]
    /\ out' = <<>>
    /\ UNCHANGED <<options, build, created>>

\* disconnect: close() when a socket is held, else throws.
disconnect ==
    /\ IF websocket # 0
       THEN /\ Commit(close(Manager, "disconnect"))
            /\ last' = [NoLast EXCEPT !.op = "disconnect", !.res = "ok",
                                      !.hadOpened = hasOpened]
            /\ hist' = [hist EXCEPT !.disconnected = TRUE, !.cmdSock = 0]
       ELSE /\ UNCHANGED <<websocket, hasOpened, retrier, sock, hist>>
            /\ last' = [NoLast EXCEPT !.op = "disconnect",
                                      !.res = "invalid-state"]
    /\ out' = <<>>
    /\ UNCHANGED <<options, build, created>>

\* send with its two tests swapped: the serializer is looked at first.
sendSerializerFirst(p) ==
    /\ last' = [NoLast EXCEPT
                  !.op = "send",
                  !.arg = p,
                  !.res = IF ~options.serializer THEN "config-error"
                          ELSE IF websocket = 0 THEN "invalid-state"
                          ELSE "ok",
                  !.sent = IF websocket # 0 /\ options.serializer
                           THEN <<[to |-> websocket, data |-> serializer(p)]>>
                           ELSE <<>>]
    /\ out' = <<>>
    /\ UNCHANGED <<options, build, websocket, hasOpened, retrier, sock,
                   created, hist>>

\* send: throws without a socket or without a serializer, else
\* websocket.send(serializer(payload)).
send(p) ==
    /\ last' = [NoLast EXCEPT
                  !.op = "send",
                  !.arg = p,
                  !.res = IF websocket = 0 THEN "invalid-state"
                          ELSE IF ~options.serializer THEN "config-error"
                          ELSE "ok",
                  !.sent = IF websocket # 0 /\ options.serializer
                           THEN <<[to |-> websocket, data |-> serializer(p)]>>
                           ELSE <<>>]
    /\ out' = <<>>
    /\ UNCHANGED <<options, build, websocket, hasOpened, retrier, sock,
                   created, hist>>

\* onTimeout, the callback of the attempt timeout: closes the socket the
\* manager holds at that moment, if any.  The oldest pending callback runs.
onTimeout ==
    /\ retrier.attemptTimers > 0
    /\ retrier' = [retrier EXCEPT
                     !.attemptTimers = @ - 1,
                     !.timeoutLive = @ /\ retrier.attemptTimers > 1]
    /\ sock' = IF websocket # 0 THEN SocketClose(sock, websocket, "timeout")
               ELSE sock
    /\ out' = <<>>
    /\ last' = [NoLast EXCEPT !.op = "timeout", !.sock = websocket,
                              !.was = IF websocket # 0
                                      THEN sock[websocket].state ELSE "NONE"]
    /\ UNCHANGED <<options, build, websocket, hasOpened, created, hist>>

\* The callback retry() schedules: _attempts++, arms the attempt timeout,
\* calls the stored fn (reliablyConnect with the payload of the latest
\* connect).  Every delay is 1000 ms, so the oldest pending callback runs.
RetryTimer(limit) ==
    /\ retrier.timers > 0
    /\ created < limit
    /\ LET id == created + 1
           r1 == [retrier EXCEPT !.timers = @ - 1,
                                 !.timerLive = @ /\ retrier.timers > 1,
                                 !.attempts = @ + 1]
           c  == reliablyConnect([Manager EXCEPT !.retrier = SetTimeout(r1)],
                                 retrier.fn, id)
       IN  /\ Commit(c.m)
           /\ created' = id
           /\ out' = c.out
           /\ last' = [NoLast EXCEPT !.op = "retry", !.newSock = id,
                                     !.payload = c.payload]
           /\ hist' = [hist EXCEPT !.cycleRetries = @ + 1]
    /\ UNCHANGED <<options, build>>

\* The 'open' listener of socket s.
OnOpen(s) ==
    /\ sock[s].state = "CONNECTING"
    /\ LET m1 == [Manager EXCEPT !.sock[s].state = "OPEN"]
           h  == handleOpen(m1, [type |-> "open", target |-> s])
       IN  /\ Commit(h.m)
           /\ out' = h.out
           /\ last' = [NoLast EXCEPT !.op = "open", !.sock = s,
                                     !.hadOpened = hasOpened,
                                     !.hook = h.hook]
           /\ hist' = [hist EXCEPT !.opensSinceConnect = IF @ < 2 THEN @ + 1 ELSE @,
                                   !.cycleRetries = 0]
    /\ UNCHANGED <<options, build, created>>

\* The 'close' listener of socket s: handleClose (CLOSED), then
\* attemptReconnection.
OnClose(s) ==
    /\ sock[s].state \in {"CONNECTING", "OPEN", "CLOSING"}
    /\ LET m1 == [Manager EXCEPT !.sock[s] = ClosedSocket]
           a  == attemptReconnection(m1)
       IN  /\ Commit(a.m)
           /\ out' = <<closed([type |-> "close", target |-> s],
                              <<options.prefix>>)>> \o a.out
           /\ last' = [NoLast EXCEPT !.op = "close", !.sock = s,
                                     !.was = sock[s].state,
                                     !.by = sock[s].closedBy,
                                     !.retry = IF a.ok THEN "true" ELSE "false"]
           /\ hist' = [hist EXCEPT !.abandoned = @ \/ ~a.ok]
    /\ UNCHANGED <<options, build, created>>

\* The 'error' listener of socket s: handleError (ERROR).
OnError(s) ==
    /\ sock[s].state \in {"CONNECTING", "OPEN", "CLOSING"}
    /\ out' = <<error(<<options.prefix>>)>>
    /\ last' = [NoLast EXCEPT !.op = "error", !.sock = s,
                              !.by = sock[s].closedBy]
    /\ UNCHANGED <<options, build, websocket, hasOpened, retrier, sock,
                   created, hist>>

\* The 'message' listener of socket s: handleMessage (MESSAGE).
OnMessage(s, data) ==
    /\ sock[s].state = "OPEN"
    /\ out' = <<message([type |-> "message", target |-> s, data |-> data],
                        <<options.prefix>>)>>
    /\ last' = [NoLast EXCEPT !.op = "message", !.sock = s]
    /\ UNCHANGED <<options, build, websocket, hasOpened, retrier, sock,
                   created, hist>>

\* One turn of the event loop, in a run that creates at most `limit` sockets.
Step(limit) ==
    \/ \E payload \in Payloads : connect(payload, limit)
    \/ disconnect
    \/ \E p \in SendPayloads : send(p)
    \/ onTimeout
    \/ RetryTimer(limit)
    \/ \E s \in 1..created : OnOpen(s)
    \/ \E s \in 1..created : OnClose(s)
    \/ \E s \in 1..created : OnError(s)
    \/ \E s \in 1..created, data \in Messages : OnMessage(s, data)

Next == Step(MaxSockets)

Spec == Init /\ [][Next]_vars

NextDeep == Step(DeepSockets)

\* The same program, in runs one socket longer.
SpecDeep == Init /\ [][NextDeep]_vars

\* Runs made of one connect command on a new manager, followed only by
\* native close events and backoff timer firings.
NextCycle ==
    \/ \E payload \in Payloads : created = 0 /\ connect(payload, CycleSockets)
    \/ \E s \in 1..created : OnClose(s)
    \/ RetryTimer(CycleSockets)

SpecCycle == Init /\ [][NextCycle]_vars

\* Runs without a disconnect command: one connect command on a new manager,
\* followed only by native open and close events and backoff timer firings.
NextOpens ==
    \/ \E payload \in Payloads : created = 0 /\ connect(payload, CycleSockets)
    \/ \E s \in 1..created : OnOpen(s)
    \/ \E s \in 1..created : OnClose(s)
    \/ RetryTimer(CycleSockets)

SpecOpens == Init /\ [][NextOpens]_vars

\* Timers eventually fire (setTimeout callbacks run once due), and a socket
\* whose close() was called eventually delivers its close event.
TimersFire(limit) ==
    /\ WF_vars(onTimeout)
    /\ WF_vars(RetryTimer(limit))
    /\ WF_vars(\E s \in SockIds : sock[s].state = "CLOSING" /\ OnClose(s))

\* Runs of connect and disconnect commands, timers and native open and close
\* events, one socket longer than Next, in which timers fire.
NextTimers ==
    \/ \E payload \in Payloads : connect(payload, DeepSockets)
    \/ disconnect
    \/ onTimeout
    \/ RetryTimer(DeepSockets)
    \/ \E s \in 1..created : OnOpen(s)
    \/ \E s \in 1..created : OnClose(s)

SpecTimers == Init /\ [][NextTimers]_vars /\ TimersFire(DeepSockets)

----------------------------------------------------------------------------
(* Properties *)

LiveSockets == {s \in SockIds : Live(s)}

\* The last step was a native event of socket s.
NativeEvent == last.op \in {"open", "close", "error", "message"}

\* C1: in every reachable state the manager has at most one live socket
\* (a socket it created that is connecting or open; listeners are never
\* removed, so every such socket can still cause notifications).
C1_AtMostOneLiveSocket == Cardinality(LiveSockets) <= 1

\* C2: an event delivered by a socket that a connect command superseded
\* causes no notification and schedules no retry.
C2_SupersededSocketIsSilent ==
    (NativeEvent /\ last.by = "connect") =>
        (out = <<>> /\ last.retry # "true")

\* C3: after a disconnect command has succeeded and until the next connect
\* command, no step creates a socket or dispatches BEGIN_RECONNECT or
\* RECONNECT_ATTEMPT.
C3_NoReconnectAfterDisconnect ==
    hist.disconnected =>
        /\ last.newSock = 0
        /\ ~Has(out, "BEGIN_RECONNECT")
        /\ ~Has(out, "RECONNECT_ATTEMPT")

\* C4: the native close event of a socket closed by a disconnect command
\* takes no retry decision: attemptReconnection is not run, neither BROKEN
\* nor RECONNECT_ABANDONED is dispatched.
C4_DisconnectCloseTakesNoRetryDecision ==
    (last.op = "close" /\ last.by = "disconnect") =>
        /\ last.retry = "none"
        /\ ~Has(out, "BROKEN")
        /\ ~Has(out, "RECONNECT_ABANDONED")

C6_OpenNotifications ==
    last.op = "open" =>
        /\ Names(out) = IF last.hadOpened THEN <<"RECONNECTED", "OPEN">>
                                          ELSE <<"OPEN">>
        /\ hasOpened
        /\ hist.opensSinceConnect = 1 => Names(out) = <<"OPEN">>

\* C7: the k-th backoff callback since the latest connect command or open
\* dispatches RECONNECT_ATTEMPT with count k, preceded by BEGIN_RECONNECT
\* exactly when k = 1; the attempt a connect command makes dispatches neither.
C7_RetryAnnouncements ==
    /\ last.op = "connect" => out = <<>>
    /\ last.op = "retry" =>
          /\ hist.cycleRetries >= 1
          /\ Names(out) = IF hist.cycleRetries = 1
                          THEN <<"BEGIN_RECONNECT", "RECONNECT_ATTEMPT">>
                          ELSE <<"RECONNECT_ATTEMPT">>
          /\ out[Len(out)].payload = [count |-> hist.cycleRetries]

\* The second retry of a cycle.
C7_Witness ==
    /\ last.op = "retry"
    /\ hist.cycleRetries = 2
    /\ Names(out) = <<"RECONNECT_ATTEMPT">>

\* The socket of the latest connect command has just closed natively,
\* before opening.
FirstSocketJustFailed ==
    /\ last.op = "close"
    /\ last.sock = hist.cmdSock
    /\ last.was = "CONNECTING"
    /\ last.by = "none"

\* C8: when the first socket of a connect command closes natively before
\* opening, CLOSED then BROKEN are dispatched, and the backoff callback that
\* follows dispatches BEGIN_RECONNECT then RECONNECT_ATTEMPT(1) and creates
\* the second socket.
C8_FirstRetryOrder ==
    /\ [](FirstSocketJustFailed => Names(out) = <<"CLOSED", "BROKEN">>)
    /\ [][(FirstSocketJustFailed /\ last'.op = "retry") =>
             /\ Names(out') = <<"BEGIN_RECONNECT", "RECONNECT_ATTEMPT">>
             /\ out'[2].payload = [count |-> 1]
             /\ last'.newSock # 0]_vars

\* C9: send throws the invalid-state error without a socket, the
\* configuration error with a socket and no serializer, and otherwise hands
\* serializer(payload) to the socket held, once; a send that throws hands
\* nothing over and changes nothing of the manager.
C9_Send ==
    [][last'.op = "send" =>
         /\ last'.res = IF websocket = 0 THEN "invalid-state"
                        ELSE IF ~options.serializer THEN "config-error"
                        ELSE "ok"
         /\ (created = 0 \/ (hist.disconnected /\ websocket = 0))
               => last'.res = "invalid-state"
         /\ last'.sent = IF last'.res = "ok"
                         THEN <<[to |-> websocket,
                                 data |-> <<"json", last'.arg>>]>>
                         ELSE <<>>
         /\ last'.res # "ok" =>
               UNCHANGED <<websocket, hasOpened, retrier, sock, created>>
      ]_vars

\* A send accepted on an open socket.
C9_Witness ==
    /\ last.op = "send"
    /\ last.res = "ok"
    /\ sock[websocket].state = "OPEN"
    /\ last.sent = <<[to |-> websocket, data |-> <<"json", "y">>]>>

\* C10 as stated: disconnect throws if and only if no connect command was
\* ever received.
C10_ThrowsOnlyBeforeFirstConnect ==
    last.op = "disconnect" => (last.res = "invalid-state" <=> created = 0)

\* C10 amended: disconnect throws if and only if the manager holds no socket
\* (this.websocket is null); then nothing changes; otherwise it performs
\* the deliberate close.
C10_ThrowsIffNoSocket ==
    [][last'.op = "disconnect" =>
         /\ last'.res = "invalid-state" <=> websocket = 0
         /\ websocket = 0 =>
               UNCHANGED <<websocket, hasOpened, retrier, sock, created>>
         /\ websocket # 0 =>
               /\ websocket' = 0
               /\ ~hasOpened'
               /\ sock'[websocket].state \notin {"CONNECTING", "OPEN"}
               /\ retrier'.timeouts = 0
               /\ ~retrier'.cachedTimeouts
      ]_vars

\* A disconnect that throws although a connect command was received.
C10_Witness ==
    /\ last.op = "disconnect"
    /\ last.res = "invalid-state"
    /\ created > 0

\* C11: hasOpened goes from true to false only in a step that performs a
\* deliberate close (a disconnect command, or a connect command, with a
\* socket held), every such step leaves it false, and no native event,
\* attempt timeout or retry callback clears it.
C11_HasOpenedClearedOnlyByDeliberateClose ==
    [][ /\ (hasOpened /\ ~hasOpened') =>
             (websocket # 0 /\ last'.op \in {"connect", "disconnect"})
        /\ (websocket # 0 /\ last'.op \in {"connect", "disconnect"}) =>
             ~hasOpened'
        /\ last'.op \in {"close", "error", "timeout", "retry", "message"} =>
             (hasOpened => hasOpened') ]_vars

\* A deliberate close has just cleared a true hasOpened.
C11_Witness ==
    /\ last.op \in {"connect", "disconnect"}
    /\ last.res = "ok"
    /\ last.hadOpened
    /\ ~hasOpened

\* C12: once RECONNECT_ABANDONED has been dispatched, and until a connect
\* command, no step creates a socket, schedules a retry or dispatches BROKEN,
\* BEGIN_RECONNECT or RECONNECT_ATTEMPT.
C12_NothingAfterAbandoned ==
    hist.abandoned =>
        /\ last.newSock = 0
        /\ last.retry # "true"
        /\ ~Has(out, "BROKEN")
        /\ ~Has(out, "BEGIN_RECONNECT")
        /\ ~Has(out, "RECONNECT_ATTEMPT")

\* C13: a socket that stays connecting, with no command issued, is eventually
\* force-closed by the attempt timeout (it leaves CONNECTING); the close event
\* of a socket the timeout closed dispatches CLOSED and then a retry decision;
\* and the timeout callback leaves the attempt count alone.
C13_TimeoutForceCloses ==
    /\ \A s \in 1..DeepSockets :
           (sock[s].state = "CONNECTING") ~>
               \/ sock[s].state # "CONNECTING"
               \/ last.op \in {"connect", "disconnect"}
               \/ created = DeepSockets
    /\ [](last.op = "close" /\ last.by = "timeout" =>
             \/ Names(out) = <<"CLOSED", "BROKEN">>
             \/ Names(out) = <<"CLOSED", "RECONNECT_ABANDONED">>)
    /\ [][last'.op = "timeout" => retrier'.attempts = retrier.attempts]_vars

\* C14: every dispatched notification has the type <prefix>::<EVENT_NAME>
\* with the prefix of the manager's options.
C14_TypesCarryConfiguredPrefix ==
    \A i \in DOMAIN out :
        /\ out[i].type[1] = options.prefix
        /\ out[i].type[2] \in {"BEGIN_RECONNECT", "RECONNECT_ATTEMPT",
                               "RECONNECTED", "RECONNECT_ABANDONED", "OPEN",
                               "BROKEN", "CLOSED", "MESSAGE", "ERROR"}

\* C15: with reconnectOnClose = false no retry is scheduled, no BROKEN,
\* BEGIN_RECONNECT or RECONNECT_ATTEMPT is dispatched, and only connect
\* commands create sockets.
C15_NoReconnectWhenDisabled ==
    ~options.reconnectOnClose =>
        /\ last.retry # "true"
        /\ last.op # "retry"
        /\ ~Has(out, "BROKEN")
        /\ ~Has(out, "BEGIN_RECONNECT")
        /\ ~Has(out, "RECONNECT_ATTEMPT")

C17_AtMostOnePendingRetry ==
    /\ retrier.timers <= 1
    /\ last.op = "open" => (retrier.timers = 0 /\ retrier.attemptTimers = 0)

\* C18: after an unexpected close of the current socket for which BROKEN was
\* dispatched, and with no command issued, the manager eventually creates a
\* new socket for the payload of the connect command.
C18_UnexpectedCloseLeadsToNewSocket ==
    (last.op = "close" /\ last.sock = websocket /\ last.by = "none"
        /\ last.retry = "true") ~>
        \/ (last.op = "retry" /\ last.newSock # 0 /\ last.payload = retrier.fn)
        \/ last.op \in {"connect", "disconnect"}
        \/ created = DeepSockets

\* C19: in a run without a disconnect command RECONNECT_ABANDONED is never
\* dispatched.
C19_NeverAbandonedWithoutDisconnect ==
    /\ ~Has(out, "RECONNECT_ABANDONED")
    /\ last.retry # "false"

\* C20: whenever the attempt-timeout callback fires, the socket it closes
\* has not completed its open handshake.
C20_TimeoutNeverClosesOpenSocket ==
    (last.op = "timeout" /\ last.sock # 0) => last.was # "OPEN"

====
